---- MODULE Spec2Model ----
(***************************************************************************)
(* Model of src/mcp_server.py: the Bitquery client (execute_query) and the *)
(* four tool operations that normalise its answer into a result record.    *)
(*                                                                         *)
(* Python values are tagged records [k |-> kind, v |-> payload]; a dict is *)
(* a function from its keys to values, a list a sequence.  A call of a     *)
(* Python function yields an outcome: Ret(value) or Raise(exc, msg).       *)
(***************************************************************************)
EXTENDS Integers, Sequences, FiniteSets, TLC

VARIABLES BITQUERY_API_KEY, op, token_address, limit, response, posts, query_result, outcome

vars == <<BITQUERY_API_KEY, op, token_address, limit, response, posts, query_result, outcome>>

(* ------------------------------ bounds --------------------------------- *)
MaxRows == 3
MaxLimit == 3

(* --------------------------- Python values ----------------------------- *)
None == [k |-> "NoneType"]
PyInt(n) == [k |-> "int", v |-> n]
\* a float, held in tenths: PyFloat(755) is 75.5
PyFloat(n) == [k |-> "float", v |-> n]
Str(s) == [k |-> "str", v |-> s]
Bool(b) == [k |-> "bool", v |-> b]
List(s) == [k |-> "list", v |-> s]
Dict(f) == [k |-> "dict", v |-> f]
EmptyDict == Dict(<<>>)
EmptyList == List(<<>>)

Ret(x) == [kind |-> "return", value |-> x]
Raise(e, m) == [kind |-> "raise", exc |-> e, msg |-> m]

Min(a, b) == IF a < b THEN a ELSE b
Max(a, b) == IF a > b THEN a ELSE b

SetToSeq(S) == CHOOSE s \in [1..Cardinality(S) -> S] : \A x \in S : \E i \in DOMAIN s : s[i] = x

\* bool(x): the empty and zero values are false
Truthy(x) ==
  CASE x.k = "NoneType" -> FALSE
    [] x.k = "bool" -> x.v
    [] x.k = "int" -> x.v # 0
    [] x.k = "float" -> x.v # 0
    [] x.k = "str" -> x.v # ""
    [] x.k = "list" -> x.v # <<>>
    [] x.k = "dict" -> DOMAIN x.v # {}

\* str(x) of a scalar (the leaves of the modelled payloads are scalars)
StrOf(x) ==
  CASE x.k = "NoneType" -> "None"
    [] x.k = "bool" -> IF x.v THEN "True" ELSE "False"
    [] x.k = "int" -> ToString(x.v)
    [] x.k = "float" -> ToString(x.v \div 10) \o "." \o ToString(x.v % 10)
    [] x.k = "str" -> x.v
    [] x.k = "list" -> "[]"
    [] x.k = "dict" -> "{}"

\* sub in s, for two strings
Contains(sub, s) ==
  \E i \in 1..(Len(s) - Len(sub) + 1) : SubSeq(s, i, i + Len(sub) - 1) = sub

\* "key" in x
In(key, x) ==
  CASE x.k = "dict" -> Ret(key \in DOMAIN x.v)
    [] x.k = "list" -> Ret(\E i \in DOMAIN x.v : x.v[i] = Str(key))
    [] x.k = "str" -> Ret(Contains(key, x.v))
    [] OTHER -> Raise("TypeError", "argument of type '" \o x.k \o "' is not iterable")

\* x["key"]
GetItem(x, key) ==
  CASE x.k = "dict" -> IF key \in DOMAIN x.v THEN Ret(x.v[key]) ELSE Raise("KeyError", "'" \o key \o "'")
    [] x.k = "list" -> Raise("TypeError", "list indices must be integers or slices, not str")
    [] x.k = "str" -> Raise("TypeError", "string indices must be integers, not 'str'")
    [] OTHER -> Raise("TypeError", "'" \o x.k \o "' object is not subscriptable")

\* x[p1][p2]...[pn]: a lookup with no defaults
RECURSIVE GetPath_Strict(_, _, _)
GetPath_Strict(x, path, last) ==
  IF path = <<>> THEN Ret(x)
  ELSE IF x.k # "dict" THEN Raise("TypeError", "'" \o x.k \o "' object is not subscriptable")
  ELSE IF Head(path) \notin DOMAIN x.v THEN Raise("KeyError", "'" \o Head(path) \o "'")
  ELSE GetPath_Strict(x.v[Head(path)], Tail(path), last)

\* x.get(p1, {}).get(p2, {}) ... .get(pn, last)
RECURSIVE GetPath(_, _, _)
GetPath(x, path, last) ==
  IF path = <<>> THEN Ret(x)
  ELSE IF x.k # "dict" THEN Raise("AttributeError", "'" \o x.k \o "' object has no attribute 'get'")
  ELSE LET default == IF Len(path) = 1 THEN last ELSE EmptyDict
       IN GetPath(IF Head(path) \in DOMAIN x.v THEN x.v[Head(path)] ELSE default, Tail(path), last)

\* the elements a for loop over x visits
Iter(x) ==
  CASE x.k = "list" -> Ret(x.v)
    [] x.k = "str" -> Ret([i \in 1..Len(x.v) |-> Str(SubSeq(x.v, i, i))])
    [] x.k = "dict" -> Ret(LET ks == SetToSeq(DOMAIN x.v) IN [i \in DOMAIN ks |-> Str(ks[i])])
    [] OTHER -> Raise("TypeError", "'" \o x.k \o "' object is not iterable")

\* s[:n] of a sequence or string, Python slice semantics
Prefix(s, n) == SubSeq(s, 1, IF n >= 0 THEN Min(n, Len(s)) ELSE Max(0, Len(s) + n))

\* x[:n]
SliceTo(x, n) ==
  CASE x.k = "list" -> Ret(List(Prefix(x.v, n)))
    [] x.k = "str" -> Ret(Str(Prefix(x.v, n)))
    [] x.k = "dict" -> Raise("TypeError", "unhashable type: 'slice'")
    [] OTHER -> Raise("TypeError", "'" \o x.k \o "' object is not subscriptable")

\* x[0]
First(x) ==
  CASE x.k = "list" -> IF x.v = <<>> THEN Raise("IndexError", "list index out of range") ELSE Ret(x.v[1])
    [] x.k = "str" -> IF x.v = "" THEN Raise("IndexError", "string index out of range") ELSE Ret(Str(SubSeq(x.v, 1, 1)))
    [] x.k = "dict" -> Raise("KeyError", "0")
    [] OTHER -> Raise("TypeError", "'" \o x.k \o "' object is not subscriptable")

\* the first raise among a sequence of outcomes, if any
Raised(outs) == \E i \in DOMAIN outs : outs[i].kind = "raise"
FirstRaise(outs) ==
  outs[CHOOSE i \in DOMAIN outs : outs[i].kind = "raise" /\ \A j \in 1..(i - 1) : outs[j].kind # "raise"]

(* ------------------------------ client --------------------------------- *)
\* names bound at module level by the import statements
ModuleNames == {"FastMCP", "Context", "httpx", "Optional", "Dict", "List", "Any", "datetime", "os", "load_dotenv"}

InvalidJsonPrefixLen == 200

Whitespace == {" ", "\t", "\n", "\r", "\f"}
RECURSIVE LStrip(_)
LStrip(s) == IF s # "" /\ SubSeq(s, 1, 1) \in Whitespace THEN LStrip(SubSeq(s, 2, Len(s))) ELSE s
RECURSIVE RStrip(_)
RStrip(s) == IF s # "" /\ SubSeq(s, Len(s), Len(s)) \in Whitespace THEN RStrip(SubSeq(s, 1, Len(s) - 1)) ELSE s
Strip(s) == RStrip(LStrip(s))

ErrorEnvelope(m) == Dict([error |-> Str(m)])

\* the except clause for json.JSONDecodeError: the clause's expression is
\* evaluated when response.json() raises
JsonErrorHandler(resp) ==
  IF "json" \in ModuleNames
  THEN Ret(ErrorEnvelope("Invalid JSON response: " \o Prefix(resp.text, InvalidJsonPrefixLen) \o "..."))
  ELSE Raise("NameError", "name 'json' is not defined")

\* execute_query without the credential check
execute_query_NoKeyCheck(resp) ==
  [posts |-> 1,
   value |->
     IF resp.failed THEN ErrorEnvelope("Request failed: " \o resp.message)
     ELSE IF resp.status_code # 200
     THEN ErrorEnvelope("HTTP " \o ToString(resp.status_code) \o ": " \o resp.text)
     ELSE IF Strip(resp.text) = "" THEN ErrorEnvelope("Empty response from API")
     ELSE IF resp.decodes THEN resp.json
     ELSE ErrorEnvelope("Request failed: name 'json' is not defined")]

\* execute_query that decodes the body before it looks at the status
execute_query_DecodeFirst(resp) ==
  IF BITQUERY_API_KEY = ""
  THEN [value |-> ErrorEnvelope("BITQUERY_API_KEY not provided"), posts |-> 0]
  ELSE [posts |-> 1,
        value |->
          IF resp.failed THEN ErrorEnvelope("Request failed: " \o resp.message)
          ELSE IF resp.decodes THEN resp.json
          ELSE IF resp.status_code # 200
          THEN ErrorEnvelope("HTTP " \o ToString(resp.status_code) \o ": " \o resp.text)
          ELSE IF Strip(resp.text) = "" THEN ErrorEnvelope("Empty response from API")
          ELSE ErrorEnvelope("Request failed: name 'json' is not defined")]

\* execute_query with the upstream's answer resp; value is what the call
\* returns and posts the number of client.post calls it made
execute_query(resp) ==
  IF BITQUERY_API_KEY = ""
  THEN [value |-> ErrorEnvelope("BITQUERY_API_KEY not provided"), posts |-> 0]
  ELSE [posts |-> 1,
        value |->
          IF resp.failed THEN ErrorEnvelope("Request failed: " \o resp.message)
          ELSE IF resp.status_code # 200
          THEN ErrorEnvelope("HTTP " \o ToString(resp.status_code) \o ": " \o resp.text)
          ELSE IF Strip(resp.text) = "" THEN ErrorEnvelope("Empty response from API")
          ELSE IF resp.decodes THEN resp.json
          ELSE LET h == JsonErrorHandler(resp)
               IN IF h.kind = "return" THEN h.value
                  ELSE ErrorEnvelope("Request failed: " \o h.msg)]

(* ---------------------------- operations ------------------------------- *)
\* the record each operation returns when the client's result carries an error
TrendingError(e) == Dict([trending_tokens |-> EmptyList, error |-> e])
BondingError(addr, e) ==
  Dict([token_address |-> Str(addr), progress_percentage |-> PyInt(0), status |-> Str("unknown"), error |-> e])
TradesError(addr, e) == Dict([token_address |-> Str(addr), trades |-> EmptyList, error |-> e])
\* the migration error record with every field of the success record defaulted
MigrationError_FullSchema(addr, e) ==
  Dict([token_address |-> Str(addr), is_migrated |-> Bool(FALSE), status |-> Str("unknown"),
        migration_timestamp |-> Str(""), dex_pairs |-> EmptyList, total_dex_pairs |-> PyInt(0),
        error |-> e])

MigrationError(addr, e) ==
  Dict([token_address |-> Str(addr), is_migrated |-> Bool(FALSE), dex_pairs |-> EmptyList, error |-> e])

\* the body of one loop iteration of get_trending_tokens: the record for row i
TokenSummary(i, trade) ==
  LET parts == [SmartContract |-> GetPath(trade, <<"Trade", "Currency", "SmartContract">>, Str("")),
                Symbol |-> GetPath(trade, <<"Trade", "Currency", "Symbol">>, Str("")),
                Name |-> GetPath(trade, <<"Trade", "Currency", "Name">>, Str("")),
                trade_count |-> GetPath(trade, <<"trades_24hr">>, PyInt(0)),
                volume_24hr |-> GetPath(trade, <<"volume_24hr">>, PyInt(0))]
  IN IF parts.SmartContract.kind = "raise" THEN parts.SmartContract
     ELSE Ret(Dict([rank |-> PyInt(i),
                    token_address |-> parts.SmartContract.value,
                    symbol |-> parts.Symbol.value,
                    name |-> parts.Name.value,
                    trade_count |-> parts.trade_count.value,
                    volume_24hr_usd |-> Str(StrOf(parts.volume_24hr.value))]))

\* the try block of get_trending_tokens without the truncation to lim
TrendingParse_NoTruncate(result, lim) ==
  LET trades_data == GetPath(result, <<"data", "EVM", "DEXTradeByTokens">>, EmptyList)
      rows == Iter(trades_data.value)
      recs == [i \in DOMAIN rows.value |-> TokenSummary(i, rows.value[i])]
  IN IF trades_data.kind = "raise" THEN trades_data
     ELSE IF rows.kind = "raise" THEN rows
     ELSE IF Raised(recs) THEN FirstRaise(recs)
     ELSE Ret([i \in DOMAIN recs |-> recs[i].value])

\* the try block of get_trending_tokens: the list of records, or the exception
TrendingParse(result, lim) ==
  LET trades_data == GetPath(result, <<"data", "EVM", "DEXTradeByTokens">>, EmptyList)
      sliced == SliceTo(trades_data.value, lim)
      rows == Iter(sliced.value)
      recs == [i \in DOMAIN rows.value |-> TokenSummary(i, rows.value[i])]
  IN IF trades_data.kind = "raise" THEN trades_data
     ELSE IF sliced.kind = "raise" THEN sliced
     ELSE IF Raised(recs) THEN FirstRaise(recs)
     ELSE Ret([i \in DOMAIN recs |-> recs[i].value])

get_trending_tokens(lim, resp) ==
  LET result == execute_query(resp).value
      has_error == In("error", result)
      error == GetItem(result, "error")
      parsed == TrendingParse(result, lim)
  IN IF has_error.kind = "raise" THEN has_error
     ELSE IF has_error.value
     THEN IF error.kind = "raise" THEN error ELSE Ret(TrendingError(error.value))
     ELSE IF parsed.kind = "raise"
     THEN Ret(TrendingError(Str("Failed to parse API response: " \o parsed.msg)))
     ELSE Ret(Dict([trending_tokens |-> List(parsed.value), total_found |-> PyInt(Len(parsed.value))]))

\* mock_progress, in tenths
mock_progress == 755

ProgressStatus(p) ==
  IF p < 500 THEN "early" ELSE IF p < 900 THEN "active" ELSE IF p < 950 THEN "approaching_graduation" ELSE "graduated"

\* the try block of get_bonding_curve_progress: the record, or the exception
BondingParse(addr, result) ==
  LET transfers_data == GetPath(result, <<"data", "EVM", "Transfers">>, EmptyList)
      transfer_info == First(transfers_data.value)
      symbol == GetPath(transfer_info.value, <<"Transfer", "Currency", "Symbol">>, Str(""))
      name == GetPath(transfer_info.value, <<"Transfer", "Currency", "Name">>, Str(""))
      last_activity == GetPath(transfer_info.value, <<"Block", "Time">>, Str(""))
  IN IF transfers_data.kind = "raise" THEN transfers_data
     ELSE IF ~Truthy(transfers_data.value)
     THEN Ret(Dict([token_address |-> Str(addr), progress_percentage |-> PyInt(0), status |-> Str("early"),
                    message |-> Str("No transfers to Four.meme contract found")]))
     ELSE IF transfer_info.kind = "raise" THEN transfer_info
     ELSE IF symbol.kind = "raise" THEN symbol
     ELSE IF last_activity.kind = "raise" THEN last_activity
     ELSE Ret(Dict([token_address |-> Str(addr),
                    symbol |-> symbol.value,
                    name |-> name.value,
                    progress_percentage |-> PyFloat(mock_progress),
                    status |-> Str(ProgressStatus(mock_progress)),
                    graduation_threshold |-> PyFloat(950),
                    last_activity |-> last_activity.value]))

get_bonding_curve_progress(addr, resp) ==
  LET result == execute_query(resp).value
      has_error == In("error", result)
      error == GetItem(result, "error")
      parsed == BondingParse(addr, result)
  IN IF has_error.kind = "raise" THEN has_error
     ELSE IF has_error.value
     THEN IF error.kind = "raise" THEN error ELSE Ret(BondingError(addr, error.value))
     ELSE IF parsed.kind = "raise"
     THEN Ret(BondingError(addr, Str("Failed to parse response: " \o parsed.msg)))
     ELSE parsed

\* the body of one loop iteration of get_latest_trades: the record for a row
TradeRecord(trade) ==
  LET parts == <<GetPath(trade, <<"Trade", "Buy">>, EmptyDict),
                 GetPath(trade, <<"Trade", "Sell">>, EmptyDict),
                 GetPath(trade, <<"Transaction", "Hash">>, Str("")),
                 GetPath(trade, <<"Block", "Time">>, Str("")),
                 GetPath(trade, <<"Block", "Number">>, PyInt(0)),
                 GetPath(trade, <<"Trade", "Buy", "Buyer">>, Str("")),
                 GetPath(trade, <<"Trade", "Sell", "Seller">>, Str("")),
                 GetPath(trade, <<"Trade", "Buy", "Amount">>, PyInt(0)),
                 GetPath(trade, <<"Trade", "Sell", "Amount">>, PyInt(0)),
                 GetPath(trade, <<"Trade", "Buy", "AmountInUSD">>, PyInt(0)),
                 GetPath(trade, <<"Trade", "Buy", "Currency", "Symbol">>, Str("")),
                 GetPath(trade, <<"Trade", "Sell", "Currency", "Symbol">>, Str(""))>>
  IN IF Raised(parts) THEN FirstRaise(parts)
     ELSE Ret(Dict([transaction_hash |-> parts[3].value,
                    timestamp |-> parts[4].value,
                    block_number |-> parts[5].value,
                    buyer |-> parts[6].value,
                    seller |-> parts[7].value,
                    buy_amount |-> Str(StrOf(parts[8].value)),
                    sell_amount |-> Str(StrOf(parts[9].value)),
                    price_usd |-> Str(StrOf(parts[10].value)),
                    buy_token |-> parts[11].value,
                    sell_token |-> parts[12].value]))

\* the try block of get_latest_trades: the list of records, or the exception
TradesParse(result) ==
  LET trades_data == GetPath(result, <<"data", "EVM", "DEXTrades">>, EmptyList)
      rows == Iter(trades_data.value)
      recs == [i \in DOMAIN rows.value |-> TradeRecord(rows.value[i])]
  IN IF trades_data.kind = "raise" THEN trades_data
     ELSE IF rows.kind = "raise" THEN rows
     ELSE IF Raised(recs) THEN FirstRaise(recs)
     ELSE Ret([i \in DOMAIN recs |-> recs[i].value])

get_latest_trades(addr, lim, resp) ==
  LET result == execute_query(resp).value
      has_error == In("error", result)
      error == GetItem(result, "error")
      parsed == TradesParse(result)
  IN IF has_error.kind = "raise" THEN has_error
     ELSE IF has_error.value
     THEN IF error.kind = "raise" THEN error ELSE Ret(TradesError(addr, error.value))
     ELSE IF parsed.kind = "raise"
     THEN Ret(TradesError(addr, Str("Failed to parse response: " \o parsed.msg)))
     ELSE Ret(Dict([token_address |-> Str(addr), trades |-> List(parsed.value),
                    total_trades |-> PyInt(Len(parsed.value))]))

\* pair_info of one row of get_token_migration_status
PairInfo(trade) ==
  LET parts == <<GetPath(trade, <<"Trade", "Dex", "ProtocolName">>, Str("")),
                 GetPath(trade, <<"Trade", "Dex", "SmartContract">>, Str("")),
                 GetPath(trade, <<"Trade", "Buy", "Currency", "Symbol">>, Str("")),
                 GetPath(trade, <<"Trade", "Sell", "Currency", "Symbol">>, Str(""))>>
  IN IF Raised(parts) THEN FirstRaise(parts)
     ELSE Ret(Dict([dex_name |-> parts[1].value, dex_contract |-> parts[2].value,
                    buy_token |-> parts[3].value, sell_token |-> parts[4].value]))

\* whether the loop replaces migration_timestamp at a row
TimestampUnset(ts) == ~Truthy(ts)

\* a loop that appends every pair_info
IsNewPair_Always(pair_info, dex_pairs) == TRUE

\* whether the loop appends pair_info to dex_pairs
IsNewPair(pair_info, dex_pairs) == \A j \in DOMAIN dex_pairs : dex_pairs[j] # pair_info

\* the for loop of get_token_migration_status from row i on, with the loop's
\* variables migration_timestamp and dex_pairs
RECURSIVE MigrationLoop(_, _, _, _)
MigrationLoop(rows, i, migration_timestamp, dex_pairs) ==
  IF i > Len(rows) THEN Ret([migration_timestamp |-> migration_timestamp, dex_pairs |-> dex_pairs])
  ELSE LET dex_info == GetPath(rows[i], <<"Trade", "Dex">>, EmptyDict)
           time == GetPath(rows[i], <<"Block", "Time">>, Str(""))
           pair_info == PairInfo(rows[i])
           set == TimestampUnset(migration_timestamp)
       IN IF dex_info.kind = "raise" THEN dex_info
          ELSE IF set /\ time.kind = "raise" THEN time
          ELSE IF pair_info.kind = "raise" THEN pair_info
          ELSE MigrationLoop(rows, i + 1,
                             IF set THEN time.value ELSE migration_timestamp,
                             IF IsNewPair(pair_info.value, dex_pairs)
                             THEN Append(dex_pairs, pair_info.value) ELSE dex_pairs)

\* the try block of get_token_migration_status without the test for no rows
MigrationParse_NoEmptyCheck(addr, result) ==
  LET trades_data == GetPath(result, <<"data", "EVM", "DEXTrades">>, EmptyList)
      rows == Iter(trades_data.value)
      loop == MigrationLoop(rows.value, 1, None, <<>>)
  IN IF trades_data.kind = "raise" THEN trades_data
     ELSE IF rows.kind = "raise" THEN rows
     ELSE IF loop.kind = "raise" THEN loop
     ELSE Ret(Dict([token_address |-> Str(addr), is_migrated |-> Bool(TRUE),
                    status |-> Str("migrated_to_dex"),
                    migration_timestamp |-> loop.value.migration_timestamp,
                    dex_pairs |-> List(loop.value.dex_pairs),
                    total_dex_pairs |-> PyInt(Len(loop.value.dex_pairs))]))

\* the try block of get_token_migration_status: the record, or the exception
MigrationParse(addr, result) ==
  LET trades_data == GetPath(result, <<"data", "EVM", "DEXTrades">>, EmptyList)
      rows == Iter(trades_data.value)
      loop == MigrationLoop(rows.value, 1, None, <<>>)
  IN IF trades_data.kind = "raise" THEN trades_data
     ELSE IF ~Truthy(trades_data.value)
     THEN Ret(Dict([token_address |-> Str(addr), is_migrated |-> Bool(FALSE),
                    status |-> Str("bonding_curve_only"), dex_pairs |-> EmptyList,
                    message |-> Str("Token still trading only on Four.meme bonding curve")]))
     ELSE IF rows.kind = "raise" THEN rows
     ELSE IF loop.kind = "raise" THEN loop
     ELSE Ret(Dict([token_address |-> Str(addr), is_migrated |-> Bool(TRUE),
                    status |-> Str("migrated_to_dex"),
                    migration_timestamp |-> loop.value.migration_timestamp,
                    dex_pairs |-> List(loop.value.dex_pairs),
                    total_dex_pairs |-> PyInt(Len(loop.value.dex_pairs))]))

get_token_migration_status(addr, resp) ==
  LET result == execute_query(resp).value
      has_error == In("error", result)
      error == GetItem(result, "error")
      parsed == MigrationParse(addr, result)
  IN IF has_error.kind = "raise" THEN has_error
     ELSE IF has_error.value
     THEN IF error.kind = "raise" THEN error ELSE Ret(MigrationError(addr, error.value))
     ELSE IF parsed.kind = "raise"
     THEN Ret(MigrationError(addr, Str("Failed to parse response: " \o parsed.msg)))
     ELSE parsed

(* ----------------------------- upstream -------------------------------- *)
\* the text of a body that decodes to the value x
RECURSIVE JsonText(_)
JsonText(x) ==
  CASE x.k = "NoneType" -> "null"
    [] x.k = "bool" -> IF x.v THEN "true" ELSE "false"
    [] x.k = "int" -> ToString(x.v)
    [] x.k = "str" -> "\"" \o x.v \o "\""
    [] x.k = "list" ->
         LET RECURSIVE Items(_)
             Items(i) == IF i > Len(x.v) THEN ""
                         ELSE (IF i > 1 THEN "," ELSE "") \o JsonText(x.v[i]) \o Items(i + 1)
         IN "[" \o Items(1) \o "]"
    [] x.k = "dict" ->
         LET ks == SetToSeq(DOMAIN x.v)
             RECURSIVE Members(_)
             Members(i) == IF i > Len(ks) THEN ""
                           ELSE (IF i > 1 THEN "," ELSE "") \o "\"" \o ks[i] \o "\":"
                                \o JsonText(x.v[ks[i]]) \o Members(i + 1)
         IN "{" \o Members(1) \o "}"

\* an HTTP answer whose body is the text of the JSON value x
JsonBody(x) == [text |-> JsonText(x), decodes |-> TRUE, json |-> x]
\* an HTTP answer whose body is no JSON text
RawBody(t) == [text |-> t, decodes |-> FALSE, json |-> None]

RECURSIVE Repeat(_, _)
Repeat(s, n) == IF n = 0 THEN "" ELSE s \o Repeat(s, n - 1)
LongText == "<html>" \o Repeat("0123456789", 21)

RawBodies == {RawBody(""), RawBody(" \n"), RawBody("boom"), RawBody(LongText)}

ScalarBodies ==
  {JsonBody(None), JsonBody(PyInt(42)), JsonBody(Bool(TRUE)), JsonBody(Str("ok")),
   JsonBody(Str("upstream error")), JsonBody(EmptyList), JsonBody(List(<<Str("error")>>)),
   JsonBody(EmptyDict), JsonBody(Dict([error |-> Str("rate limited")])),
   JsonBody(Dict([error |-> None]))}

Obj1(key, x) == Dict([f \in {key} |-> x])

\* an answer whose data.EVM object holds x under the operation's list key
Payload(key, x) == Dict([data |-> Dict([EVM |-> Obj1(key, x)])])

ShapeBodies(key) ==
  {JsonBody(Dict([data |-> None])),
   JsonBody(Dict([data |-> None, errors |-> List(<<Str("bad query")>>)])),
   JsonBody(Dict([data |-> EmptyDict])),
   JsonBody(Dict([data |-> Dict([EVM |-> None])])),
   JsonBody(Dict([data |-> Dict([EVM |-> EmptyDict])])),
   JsonBody(Payload(key, None)),
   JsonBody(Payload(key, PyInt(5)))}

Currency(name, symbol) == Dict([Name |-> Str(name), Symbol |-> Str(symbol)])

TrendingRows ==
  {Dict([Trade |-> Dict([Currency |-> Dict([Name |-> Str("Alpha"), Symbol |-> Str("ALP"),
                                            SmartContract |-> Str("0xa1")])]),
         volume_24hr |-> Str("12.5"), trades_24hr |-> PyInt(7)]),
   Dict([Trade |-> Dict([Currency |-> Dict([Name |-> Str("Beta"), Symbol |-> Str("BET"),
                                            SmartContract |-> Str("0xb2")])]),
         volume_24hr |-> PyInt(3), trades_24hr |-> PyInt(2)]),
   Dict([Trade |-> Dict([Currency |-> Dict([Symbol |-> Str("GAM")])]), trades_24hr |-> PyInt(1)]),
   EmptyDict,
   None}

TransferRows ==
  {Dict([Transfer |-> Dict([Amount |-> Str("10"), Currency |-> Currency("Alpha", "ALP")]),
         Block |-> Dict([Time |-> Str("2024-01-01T00:00:00Z")])]),
   Dict([Transfer |-> Dict([Currency |-> Dict([Name |-> Str("Beta")])])]),
   EmptyDict,
   Dict([Transfer |-> None])}

LatestTradeRows ==
  {Dict([Transaction |-> Dict([Hash |-> Str("0xh1")]),
         Block |-> Dict([Time |-> Str("2024-01-02T00:00:00Z"), Number |-> PyInt(100)]),
         Trade |-> Dict([Buy |-> Dict([Buyer |-> Str("0xbuyer"), Amount |-> Str("1.5"),
                                       AmountInUSD |-> Str("3.25"), Price |-> Str("2"),
                                       Currency |-> Currency("Alpha", "ALP")]),
                         Sell |-> Dict([Seller |-> Str("0xseller"), Amount |-> PyInt(4),
                                        Currency |-> Currency("Wrapped BNB", "WBNB")])])]),
   Dict([Transaction |-> Dict([Hash |-> Str("0xh2")]),
         Trade |-> Dict([Buy |-> Dict([Buyer |-> Str("0xbuyer2")])])]),
   EmptyDict,
   Dict([Trade |-> Dict([Buy |-> None])])}

DexTrade(protocol, contract, buy, sell) ==
  [Trade |-> Dict([Dex |-> Dict([ProtocolName |-> Str(protocol), SmartContract |-> Str(contract)]),
                   Buy |-> Dict([Currency |-> Currency(buy, buy)]),
                   Sell |-> Dict([Currency |-> Currency(sell, sell)])])]

MigrationRows ==
  {Dict(DexTrade("pancake_v2", "0xd1", "ALP", "WBNB") @@ [Block |-> Dict([Time |-> Str("T1")])]),
   Dict(DexTrade("pancake_v2", "0xd1", "ALP", "WBNB") @@ [Block |-> Dict([Time |-> Str("T2")])]),
   Dict(DexTrade("uniswap_v3", "0xd2", "ALP", "USDT") @@ [Block |-> Dict([Time |-> Str("T3")])]),
   Dict(DexTrade("uniswap_v3", "0xd2", "ALP", "USDT")),
   EmptyDict,
   None}

\* the lists of at most n rows drawn from S
RECURSIVE RowLists(_, _)
RowLists(S, n) ==
  IF n = 0 THEN {<<>>}
  ELSE LET shorter == RowLists(S, n - 1)
       IN shorter \cup {Append(l, r) : l \in {s \in shorter : Len(s) = n - 1}, r \in S}

ListKey(o) ==
  CASE o = "get_trending_tokens" -> "DEXTradeByTokens"
    [] o = "get_bonding_curve_progress" -> "Transfers"
    [] o = "get_latest_trades" -> "DEXTrades"
    [] o = "get_token_migration_status" -> "DEXTrades"

RowsOf(o) ==
  CASE o = "get_trending_tokens" -> TrendingRows
    [] o = "get_bonding_curve_progress" -> TransferRows
    [] o = "get_latest_trades" -> LatestTradeRows
    [] o = "get_token_migration_status" -> MigrationRows

Statuses == {200, 404, 500}

\* what the upstream can answer to the POST of operation o
Responses(o) ==
  {[failed |-> TRUE, message |-> m, status_code |-> 0, text |-> "", decodes |-> FALSE, json |-> None] :
     m \in {"", "timed out"}}
  \cup {[failed |-> FALSE, message |-> "", status_code |-> s, text |-> b.text, decodes |-> b.decodes,
         json |-> b.json] : s \in Statuses, b \in RawBodies \cup ScalarBodies \cup ShapeBodies(ListKey(o))}
  \cup {[failed |-> FALSE, message |-> "", status_code |-> 200, text |-> b.text, decodes |-> b.decodes,
         json |-> b.json] : b \in {JsonBody(Payload(ListKey(o), List(l))) : l \in RowLists(RowsOf(o), MaxRows)}}

Limits == (-1)..MaxLimit
TokenAddresses == {"0xT0", "0xT1"}

(* ------------------------------ actions -------------------------------- *)
NoResponse == [failed |-> TRUE, message |-> "", status_code |-> 0, text |-> "", decodes |-> FALSE, json |-> None]
NoOutcome == [kind |-> "none"]

Init ==
  /\ BITQUERY_API_KEY \in {"", "bq-secret"}
  /\ op = "idle"
  /\ token_address = ""
  /\ limit = 0
  /\ response = NoResponse
  /\ posts = 0
  /\ query_result = None
  /\ outcome = NoOutcome

CallTrendingTokens ==
  /\ op = "idle"
  /\ \E lim \in Limits, resp \in Responses("get_trending_tokens") :
       /\ op' = "get_trending_tokens"
       /\ limit' = lim
       /\ response' = resp
       /\ posts' = execute_query(resp).posts
       /\ query_result' = execute_query(resp).value
       /\ outcome' = get_trending_tokens(lim, resp)
  /\ UNCHANGED <<BITQUERY_API_KEY, token_address>>

CallBondingCurveProgress ==
  /\ op = "idle"
  /\ \E addr \in TokenAddresses, resp \in Responses("get_bonding_curve_progress") :
       /\ op' = "get_bonding_curve_progress"
       /\ token_address' = addr
       /\ response' = resp
       /\ posts' = execute_query(resp).posts
       /\ query_result' = execute_query(resp).value
       /\ outcome' = get_bonding_curve_progress(addr, resp)
  /\ UNCHANGED <<BITQUERY_API_KEY, limit>>

CallLatestTrades ==
  /\ op = "idle"
  /\ \E addr \in TokenAddresses, lim \in Limits, resp \in Responses("get_latest_trades") :
       /\ op' = "get_latest_trades"
       /\ token_address' = addr
       /\ limit' = lim
       /\ response' = resp
       /\ posts' = execute_query(resp).posts
       /\ query_result' = execute_query(resp).value
       /\ outcome' = get_latest_trades(addr, lim, resp)
  /\ UNCHANGED BITQUERY_API_KEY

CallTokenMigrationStatus ==
  /\ op = "idle"
  /\ \E addr \in TokenAddresses, resp \in Responses("get_token_migration_status") :
       /\ op' = "get_token_migration_status"
       /\ token_address' = addr
       /\ response' = resp
       /\ posts' = execute_query(resp).posts
       /\ query_result' = execute_query(resp).value
       /\ outcome' = get_token_migration_status(addr, resp)
  /\ UNCHANGED <<BITQUERY_API_KEY, limit>>

\* the call is over: its records are dropped and the server awaits the next call
Finish ==
  /\ op # "idle"
  /\ op' = "idle"
  /\ token_address' = ""
  /\ limit' = 0
  /\ response' = NoResponse
  /\ posts' = 0
  /\ query_result' = None
  /\ outcome' = NoOutcome
  /\ UNCHANGED BITQUERY_API_KEY

Next ==
  \/ CallTrendingTokens
  \/ CallBondingCurveProgress
  \/ CallLatestTrades
  \/ CallTokenMigrationStatus
  \/ Finish

Spec == Init /\ [][Next]_vars

(* ------------------------------ claims --------------------------------- *)
Called == op # "idle"
Returned == outcome.kind = "return"
Answered == Called /\ BITQUERY_API_KEY # "" /\ ~response.failed
Keys == DOMAIN outcome.value.v

\* the record of operation o whose error field is e and whose other fields
\* hold the defaults
DefaultRecord(o, e) ==
  CASE o = "get_trending_tokens" -> Dict([trending_tokens |-> List(<<>>), error |-> e])
    [] o = "get_bonding_curve_progress" ->
         Dict([token_address |-> Str(token_address), progress_percentage |-> PyInt(0),
               status |-> Str("unknown"), error |-> e])
    [] o = "get_latest_trades" ->
         Dict([token_address |-> Str(token_address), trades |-> List(<<>>), error |-> e])
    [] o = "get_token_migration_status" ->
         Dict([token_address |-> Str(token_address), is_migrated |-> Bool(FALSE),
               dex_pairs |-> List(<<>>), error |-> e])

\* C1: every invocation of any of the four operations, whatever the credential
\* state and the upstream's answer, ends by returning a record and never by
\* raising an exception to the caller.
C1_NeverRaises == Called => outcome.kind = "return"

\* C2: without an API key every invocation returns the operation's default
\* record with the error "BITQUERY_API_KEY not provided", and sends no POST.
C2_NoKeyFailsFast ==
  (Called /\ BITQUERY_API_KEY = "") =>
    /\ outcome = Ret(DefaultRecord(op, Str("BITQUERY_API_KEY not provided")))
    /\ posts = 0

C2_Witness ==
  /\ op = "get_latest_trades" /\ BITQUERY_API_KEY = ""
  /\ response.status_code = 200 /\ response.decodes
  /\ "error" \in Keys

\* C4: with a key, an answer of HTTP status s # 200 and body text b makes
\* execute_query return exactly {error: "HTTP s: b"}; the operation's record
\* carries that string in its error field next to its defaults, and the
\* request was sent once.
C4_HttpErrorEnvelope ==
  (Answered /\ response.status_code # 200) =>
    LET m == Str("HTTP " \o ToString(response.status_code) \o ": " \o response.text)
    IN /\ query_result = Dict([error |-> m])
       /\ outcome = Ret(DefaultRecord(op, m))
       /\ posts = 1

C4_Witness ==
  /\ Answered /\ response.status_code = 500 /\ response.text = "{\"error\":\"rate limited\"}"
  /\ op = "get_token_migration_status"
  /\ outcome.value.v.error = Str("HTTP 500: {\"error\":\"rate limited\"}")

\* C5: with a key, an HTTP 200 answer whose non-empty body is no JSON makes
\* execute_query return the error "Invalid JSON response: " followed by the
\* first 200 characters of the body and "...".
C5_InvalidJsonMessage ==
  (Answered /\ response.status_code = 200 /\ Strip(response.text) # "" /\ ~response.decodes) =>
    query_result = Dict([error |-> Str("Invalid JSON response: "
                                 \o SubSeq(response.text, 1, Min(200, Len(response.text))) \o "...")])

(* helpers of the claims about payloads *)
Missing == [k |-> "missing"]

\* the value under path in x, Missing when there is none
RECURSIVE Lookup(_, _)
Lookup(x, path) ==
  IF path = <<>> THEN x
  ELSE IF x.k = "dict" /\ Head(path) \in DOMAIN x.v THEN Lookup(x.v[Head(path)], Tail(path))
  ELSE Missing

Leaf(x, path, default) == IF Lookup(x, path) = Missing THEN default ELSE Lookup(x, path)

\* some key of path is absent from the object that should hold it
RECURSIVE KeyAbsent(_, _)
KeyAbsent(x, path) ==
  /\ path # <<>>
  /\ x.k = "dict"
  /\ (Head(path) \notin DOMAIN x.v \/ KeyAbsent(x.v[Head(path)], Tail(path)))

\* the members of a row that the operation's query declares as objects
ObjectPaths(o) ==
  CASE o = "get_trending_tokens" -> {<<"Trade">>, <<"Trade", "Currency">>}
    [] o = "get_bonding_curve_progress" -> {<<"Transfer">>, <<"Transfer", "Currency">>, <<"Block">>}
    [] o = "get_latest_trades" ->
         {<<"Transaction">>, <<"Block">>, <<"Trade">>, <<"Trade", "Buy">>, <<"Trade", "Sell">>,
          <<"Trade", "Buy", "Currency">>, <<"Trade", "Sell", "Currency">>}
    [] o = "get_token_migration_status" ->
         {<<"Block">>, <<"Trade">>, <<"Trade", "Dex">>, <<"Trade", "Buy">>, <<"Trade", "Sell">>,
          <<"Trade", "Buy", "Currency">>, <<"Trade", "Sell", "Currency">>}

WellFormedRow(o, row) ==
  /\ row.k = "dict"
  /\ \A p \in ObjectPaths(o) : Lookup(row, p) = Missing \/ Lookup(row, p).k = "dict"

ListPath == <<"data", "EVM", ListKey(op)>>

\* the client handed the operation a JSON object without an error key
ObjectResult ==
  /\ Answered /\ response.status_code = 200 /\ response.decodes
  /\ query_result.k = "dict" /\ "error" \notin DOMAIN query_result.v

\* the object holds, under the operation's path, a list of well-formed rows
WellFormedPayload ==
  /\ ObjectResult
  /\ Lookup(query_result, ListPath) # Missing
  /\ Lookup(query_result, ListPath).k = "list"
  /\ \A i \in DOMAIN Lookup(query_result, ListPath).v :
       WellFormedRow(op, Lookup(query_result, ListPath).v[i])

Rows == Lookup(query_result, ListPath).v

\* the fixed schema of operation o
Schema(o) ==
  CASE o = "get_trending_tokens" -> {"trending_tokens", "total_found"}
    [] o = "get_bonding_curve_progress" ->
         {"token_address", "symbol", "name", "progress_percentage", "status", "graduation_threshold",
          "last_activity"}
    [] o = "get_latest_trades" -> {"token_address", "trades", "total_trades"}
    [] o = "get_token_migration_status" ->
         {"token_address", "is_migrated", "status", "migration_timestamp", "dex_pairs", "total_dex_pairs"}

\* the fields of o present in every outcome
CoreKeys(o) ==
  CASE o = "get_trending_tokens" -> {"trending_tokens"}
    [] o = "get_bonding_curve_progress" -> {"token_address", "progress_percentage", "status"}
    [] o = "get_latest_trades" -> {"token_address", "trades"}
    [] o = "get_token_migration_status" -> {"token_address", "is_migrated", "dex_pairs"}

\* the keys of the record of o when there are no rows
NoRowsKeys(o) ==
  CASE o = "get_trending_tokens" -> {"trending_tokens", "total_found"}
    [] o = "get_bonding_curve_progress" -> {"token_address", "progress_percentage", "status", "message"}
    [] o = "get_latest_trades" -> {"token_address", "trades", "total_trades"}
    [] o = "get_token_migration_status" -> {"token_address", "is_migrated", "status", "dex_pairs", "message"}

C6_TruncatedRanked ==
  (op = "get_trending_tokens" /\ limit >= 0 /\ WellFormedPayload) =>
    /\ Returned
    /\ Keys = {"trending_tokens", "total_found"}
    /\ LET out == outcome.value.v.trending_tokens.v
       IN /\ Len(out) = Min(Len(Rows), limit)
          /\ \A i \in 1..Len(out) :
               out[i] = Dict([rank |-> PyInt(i),
                              token_address |-> Leaf(Rows[i], <<"Trade", "Currency", "SmartContract">>, Str("")),
                              symbol |-> Leaf(Rows[i], <<"Trade", "Currency", "Symbol">>, Str("")),
                              name |-> Leaf(Rows[i], <<"Trade", "Currency", "Name">>, Str("")),
                              trade_count |-> Leaf(Rows[i], <<"trades_24hr">>, PyInt(0)),
                              volume_24hr_usd |-> Str(StrOf(Leaf(Rows[i], <<"volume_24hr">>, PyInt(0))))])
          /\ outcome.value.v.total_found = PyInt(Len(out))

C6_Witness ==
  /\ op = "get_trending_tokens" /\ limit = 2 /\ WellFormedPayload /\ Len(Rows) = 3
  /\ Rows[1] # Rows[2]
  /\ Returned /\ Len(outcome.value.v.trending_tokens.v) = 2
  /\ outcome.value.v.trending_tokens.v[2].v.rank = PyInt(2)

\* the four-field pair of an upstream row of get_token_migration_status
PairOf(row) ==
  Dict([dex_name |-> Leaf(row, <<"Trade", "Dex", "ProtocolName">>, Str("")),
        dex_contract |-> Leaf(row, <<"Trade", "Dex", "SmartContract">>, Str("")),
        buy_token |-> Leaf(row, <<"Trade", "Buy", "Currency", "Symbol">>, Str("")),
        sell_token |-> Leaf(row, <<"Trade", "Sell", "Currency", "Symbol">>, Str(""))])

FirstRowWith(pair) == CHOOSE i \in DOMAIN Rows : PairOf(Rows[i]) = pair /\ \A j \in 1..(i - 1) : PairOf(Rows[j]) # pair

\* C7: get_token_migration_status on a well-formed payload with at least one
\* row: dex_pairs has no two equal entries, holds exactly the distinct pairs
\* of the upstream rows in the order of their first occurrence, and
\* total_dex_pairs is its length.
C7_DistinctPairsFirstSeen ==
  (op = "get_token_migration_status" /\ WellFormedPayload /\ Rows # <<>>) =>
    /\ Returned
    /\ "error" \notin Keys
    /\ LET out == outcome.value.v.dex_pairs.v
       IN /\ \A i, j \in DOMAIN out : i # j => out[i] # out[j]
          /\ {out[i] : i \in DOMAIN out} = {PairOf(Rows[i]) : i \in DOMAIN Rows}
          /\ \A i, j \in DOMAIN out : i < j => FirstRowWith(out[i]) < FirstRowWith(out[j])
          /\ outcome.value.v.total_dex_pairs = PyInt(Len(out))

C7_Witness ==
  /\ op = "get_token_migration_status" /\ WellFormedPayload /\ Len(Rows) = 3
  /\ PairOf(Rows[1]) = PairOf(Rows[3]) /\ PairOf(Rows[1]) # PairOf(Rows[2])
  /\ Returned /\ Len(outcome.value.v.dex_pairs.v) = 2

\* C8 (as stated): get_token_migration_status on any upstream result that
\* carries no error: with a non-empty DEXTrades list, is_migrated is true,
\* status is "migrated_to_dex" and dex_pairs is non-empty; with an empty
\* list, is_migrated is false, status is "bonding_curve_only", dex_pairs is
\* empty and no error field is set.
C8_AnyResultWithoutError ==
  (op = "get_token_migration_status" /\ ObjectResult /\ Lookup(query_result, ListPath) # Missing
   /\ Lookup(query_result, ListPath).k = "list") =>
    /\ Returned
    /\ IF Rows # <<>>
       THEN /\ outcome.value.v.is_migrated = Bool(TRUE)
            /\ "status" \in Keys
            /\ outcome.value.v.status = Str("migrated_to_dex")
            /\ outcome.value.v.dex_pairs.v # <<>>
       ELSE /\ outcome.value.v.is_migrated = Bool(FALSE)
            /\ outcome.value.v.status = Str("bonding_curve_only")
            /\ outcome.value.v.dex_pairs = List(<<>>)
            /\ "error" \notin Keys

\* C8 (amended): get_token_migration_status on a result that carries no error
\* (a JSON object without an error key) whose DEXTrades rows are all
\* well-formed: with a non-empty DEXTrades list, is_migrated is true, status
\* is "migrated_to_dex" and dex_pairs is non-empty; with an empty or absent
\* list, is_migrated is false, status is "bonding_curve_only", dex_pairs is
\* empty and no error field is set.
C8_MigratedIffTrades ==
  (op = "get_token_migration_status" /\ ObjectResult /\ (KeyAbsent(query_result, ListPath) \/ WellFormedPayload)) =>
    /\ Returned
    /\ IF WellFormedPayload /\ Rows # <<>>
       THEN /\ outcome.value.v.is_migrated = Bool(TRUE)
            /\ outcome.value.v.status = Str("migrated_to_dex")
            /\ outcome.value.v.dex_pairs.v # <<>>
            /\ "error" \notin Keys
       ELSE /\ outcome.value.v.is_migrated = Bool(FALSE)
            /\ outcome.value.v.status = Str("bonding_curve_only")
            /\ outcome.value.v.dex_pairs = List(<<>>)
            /\ "error" \notin Keys

C8_Witness ==
  /\ op = "get_token_migration_status" /\ WellFormedPayload /\ Len(Rows) = 2
  /\ Returned /\ outcome.value.v.is_migrated = Bool(TRUE)
  /\ outcome.value.v.status = Str("migrated_to_dex")

\* the leaf fields of the records of operation o: the field of the record,
\* the path of the upstream row it is read from, and its value when the row
\* has no such leaf ("" for texts, 0 for counts, the text of 0 for amounts)
LeafFields(o) ==
  CASE o = "get_trending_tokens" ->
         {[field |-> "token_address", path |-> <<"Trade", "Currency", "SmartContract">>, default |-> Str("")],
          [field |-> "symbol", path |-> <<"Trade", "Currency", "Symbol">>, default |-> Str("")],
          [field |-> "name", path |-> <<"Trade", "Currency", "Name">>, default |-> Str("")],
          [field |-> "trade_count", path |-> <<"trades_24hr">>, default |-> PyInt(0)],
          [field |-> "volume_24hr_usd", path |-> <<"volume_24hr">>, default |-> Str("0")]}
    [] o = "get_bonding_curve_progress" ->
         {[field |-> "symbol", path |-> <<"Transfer", "Currency", "Symbol">>, default |-> Str("")],
          [field |-> "name", path |-> <<"Transfer", "Currency", "Name">>, default |-> Str("")],
          [field |-> "last_activity", path |-> <<"Block", "Time">>, default |-> Str("")]}
    [] o = "get_latest_trades" ->
         {[field |-> "transaction_hash", path |-> <<"Transaction", "Hash">>, default |-> Str("")],
          [field |-> "timestamp", path |-> <<"Block", "Time">>, default |-> Str("")],
          [field |-> "block_number", path |-> <<"Block", "Number">>, default |-> PyInt(0)],
          [field |-> "buyer", path |-> <<"Trade", "Buy", "Buyer">>, default |-> Str("")],
          [field |-> "seller", path |-> <<"Trade", "Sell", "Seller">>, default |-> Str("")],
          [field |-> "buy_amount", path |-> <<"Trade", "Buy", "Amount">>, default |-> Str("0")],
          [field |-> "sell_amount", path |-> <<"Trade", "Sell", "Amount">>, default |-> Str("0")],
          [field |-> "price_usd", path |-> <<"Trade", "Buy", "AmountInUSD">>, default |-> Str("0")],
          [field |-> "buy_token", path |-> <<"Trade", "Buy", "Currency", "Symbol">>, default |-> Str("")],
          [field |-> "sell_token", path |-> <<"Trade", "Sell", "Currency", "Symbol">>, default |-> Str("")]}
    [] o = "get_token_migration_status" ->
         {[field |-> "dex_name", path |-> <<"Trade", "Dex", "ProtocolName">>, default |-> Str("")],
          [field |-> "dex_contract", path |-> <<"Trade", "Dex", "SmartContract">>, default |-> Str("")],
          [field |-> "buy_token", path |-> <<"Trade", "Buy", "Currency", "Symbol">>, default |-> Str("")],
          [field |-> "sell_token", path |-> <<"Trade", "Sell", "Currency", "Symbol">>, default |-> Str("")]}

\* record rec holds the default in every leaf field that row lacks
DefaultsWhereAbsent(o, rec, row) ==
  \A f \in LeafFields(o) : KeyAbsent(row, f.path) => rec.v[f.field] = f.default

\* C9: when the upstream's JSON object has no error key and lacks a key of the
\* path data / EVM / list key, the record has no error field and holds no
\* rows (empty list with total 0; bonding curve "early" with a message;
\* migration "bonding_curve_only" with empty dex_pairs); and a well-formed row
\* that lacks a leaf yields a record with the default in that field, not a
\* parse error.
C9_AbsentKeysDefault ==
  /\ (Called /\ ObjectResult /\ KeyAbsent(query_result, ListPath)) =>
       /\ Returned
       /\ "error" \notin Keys
       /\ CASE op = "get_trending_tokens" ->
                 outcome.value = Dict([trending_tokens |-> List(<<>>), total_found |-> PyInt(0)])
            [] op = "get_latest_trades" ->
                 outcome.value = Dict([token_address |-> Str(token_address), trades |-> List(<<>>),
                                       total_trades |-> PyInt(0)])
            [] op = "get_bonding_curve_progress" ->
                 outcome.value.v.status = Str("early") /\ "message" \in Keys
            [] op = "get_token_migration_status" ->
                 outcome.value.v.status = Str("bonding_curve_only") /\ outcome.value.v.dex_pairs = List(<<>>)
  /\ (Called /\ WellFormedPayload) =>
       /\ Returned
       /\ "error" \notin Keys
       /\ CASE op = "get_trending_tokens" ->
                 \A i \in DOMAIN outcome.value.v.trending_tokens.v :
                   DefaultsWhereAbsent(op, outcome.value.v.trending_tokens.v[i], Rows[i])
            [] op = "get_latest_trades" ->
                 /\ Len(outcome.value.v.trades.v) = Len(Rows)
                 /\ \A i \in DOMAIN Rows : DefaultsWhereAbsent(op, outcome.value.v.trades.v[i], Rows[i])
            [] op = "get_bonding_curve_progress" ->
                 Rows # <<>> => DefaultsWhereAbsent(op, outcome.value, Rows[1])
            [] op = "get_token_migration_status" ->
                 \A i \in DOMAIN Rows :
                   \E j \in DOMAIN outcome.value.v.dex_pairs.v :
                     DefaultsWhereAbsent(op, outcome.value.v.dex_pairs.v[j], Rows[i])

C9_Witness ==
  /\ op = "get_bonding_curve_progress" /\ ObjectResult
  /\ Lookup(query_result, <<"data">>) = EmptyDict
  /\ Returned /\ outcome.value.v.status = Str("early")

\* C10: get_token_migration_status on a well-formed payload with at least one
\* row: migration_timestamp is the Block.Time of the first upstream row, ""
\* when that row has none; it is never taken from a later row.
C10_TimestampOfFirstRow ==
  (op = "get_token_migration_status" /\ WellFormedPayload /\ Rows # <<>>) =>
    /\ Returned
    /\ "migration_timestamp" \in Keys
    /\ outcome.value.v.migration_timestamp = Leaf(Rows[1], <<"Block", "Time">>, Str(""))

====
